---- MODULE Spec2Model ----
(***************************************************************************)
(* A model of jira-metrics-extract/query.py: the QueryManager's field      *)
(* resolution, its two changelog replay generators (iter_changes and       *)
(* iter_size_changes) and its paginated find_issues.                       *)
(***************************************************************************)
EXTENDS Integers, Sequences, FiniteSets, TLC

\* ------------------------------------------------------------------ bounds
MaxDeltas == 3      \* deltas in one changelog, over all history records
MaxHistories == 2   \* history records in one changelog
MaxCatalog == 2     \* entries of the field catalog
MaxConfigured == 2  \* entries of settings['fields']
MaxManagers == 2    \* QueryManager constructions in one run
MaxIssues == 4      \* issues matching a query
MaxPageSize == 3    \* settings['max_results'] and the service's page cap
MaxElements == 2    \* elements of a collection-valued field
MaxAllowed == 2     \* entries of an allow-list of known values

\* ------------------------------------------------------------- data model
\* Python's None
NONE == "<None>"

\* No exception was raised.
NoException == [type |-> NONE, arg |-> NONE]

\* A raw field value, as getattr(issue.fields, field_name) finds it.
\*   kind     absent (no such attribute), None, str, int, bool, option (an
\*            object with .value), object (any other object), list
\*   text     the string, the number's digits, the option's value, or what
\*            str() of the object gives
\*   child    the option's child.value, None when it has no child
\*   strfail  the exception str() of the object raises, None when it works
\*   elems    the elements of the list
Raw(kind, text, child, strfail, elems) ==
    [kind |-> kind, text |-> text, child |-> child, strfail |-> strfail,
     elems |-> elems]

AbsentValue == Raw("absent", NONE, NONE, NONE, <<>>)

\* A normalized value: its Python type and its content.
Typed(type, v) == [type |-> type, v |-> v]

NoneValue == Typed("NoneType", NONE)

\* The issue key of the replayed issue.
IssueKey == "PROJ-1"

\* The id Jira stores in a delta's `to` next to the display string `toString`.
\* Number custom fields (Story Points) carry no id: `to` is None.
IdOf(field, name) ==
    IF name = NONE THEN NONE
    ELSE IF field = "Story Points" THEN NONE
    ELSE IF name = "Open" THEN "1"
    ELSE IF name = "In Progress" THEN "3"
    ELSE IF name = "Done" THEN "10001"
    ELSE IF name = "Fixed" THEN "10000"
    ELSE name

\* One field delta of a history record (an element of change.items).
Item(f, old, new) ==
    [field |-> f, fromString |-> old, to |-> IdOf(f, new), toString |-> new]

StatusDeltas ==
    {Item("status", "Open", "In Progress"), Item("status", "In Progress", "Done")}

ResolutionDeltas ==
    {Item("resolution", NONE, "Fixed"), Item("resolution", "Fixed", NONE)}

SizeDeltas ==
    {Item("Story Points", NONE, "3"), Item("Story Points", "3", "5")}

Deltas == StatusDeltas \cup ResolutionDeltas \cup SizeDeltas

\* settings['max_results'] when the caller passes none.
DefaultMaxResults == 500

\* Timestamps as the service sends them: a pair <<local time, utc offset>>.
ServerOffset == 2
TimeString(t) == <<t + ServerOffset, ServerOffset>>

\* dateutil.parser.parse: an aware datetime.
ParseDate(s) == [local |-> s[1], utcoffset |-> s[2]]

\* datetime.astimezone(tzutc()): the same instant, in UTC.
AsUTC(d) == [local |-> d.local - d.utcoffset, utcoffset |-> 0]

RECURSIVE SumTo(_, _)
SumTo(f, n) == IF n = 0 THEN 0 ELSE f[n] + SumTo(f, n - 1)

\* The sizes of the history records of a changelog of m records.
SizeVectors(m) ==
    {f \in [1..m -> 0..MaxDeltas] : SumTo(f, m) <= MaxDeltas}

\* The changelog whose k-th history record holds the next sizes[k] deltas of
\* flat; the k-th record was created at time k.
BuildHistories(flat, sizes) ==
    [k \in 1..Len(sizes) |->
        [created |-> TimeString(k),
         items |-> SubSeq(flat, SumTo(sizes, k - 1) + 1, SumTo(sizes, k))]]

Changelogs ==
    UNION {
        UNION { {BuildHistories(flat, sizes) :
                    flat \in [1..SumTo(sizes, m) -> Deltas]} :
                sizes \in SizeVectors(m)} :
        m \in 0..MaxHistories}

\* issue.fields.__dict__: the issue's current values by field id.
SizeFieldId == "customfield_10002"

\* The current values of an issue: its status name and its field values.  The
\* status generator reads only the first, the size generator only the second.
CurrentValues ==
    {[statusName |-> "Open", dict |-> <<>>],
     [statusName |-> "Done", dict |-> SizeFieldId :> "8"]}

\* The issues handed to the replay generators: with a changelog (expanded by
\* the search) or without the attribute.
Issues ==
    {[key |-> IssueKey, created |-> TimeString(0), hasChangelog |-> TRUE,
      histories |-> cl, statusName |-> cur.statusName, dict |-> cur.dict] :
        cl \in Changelogs, cur \in CurrentValues}
    \cup
    {[key |-> IssueKey, created |-> TimeString(0), hasChangelog |-> FALSE,
      histories |-> <<>>, statusName |-> cur.statusName, dict |-> cur.dict] :
        cur \in CurrentValues}

\* QueryManager.fields as the replay sees it.
ReplayMappings == {<<>>, "StoryPoints" :> SizeFieldId}

\* ------------------------------------------------------------------ state
VARIABLES
    pc,                \* position of the running operation
    fields,            \* QueryManager.fields (class attribute)
    raised,            \* the exception the operation raised, NONE if none
    issue,             \* the issue being replayed
    include_resolution_changes,
    hidx,              \* index of the current history record
    iidx,              \* index of the current item in it
    change_date,
    last_status,
    last_resolution,
    is_resolved,
    size,
    out,               \* the snapshots yielded so far
    jira,              \* the field catalog of the client: jira.fields()
    settings_fields,   \* settings['fields'] as <<name, label>> pairs, in
                       \* the order in which items() gives them
    managers,          \* QueryManager constructions so far
    max_results,       \* settings['max_results']
    expand,            \* find_issues' changelog argument
    total,             \* issues matching the query, in the requested order
    page_cap,          \* the most issues the service returns in one page
    fromRow,
    issues,
    requests,          \* the search requests sent, in order
    pages,             \* the pages the service returned, in order
    failed,            \* a search request raised JIRAError
    result,            \* what find_issues returned
    python,            \* the interpreter the module runs under
    known_values,      \* settings['known_values']
    field_value,       \* the raw value of the field on the issue
    logical_name,      \* resolve_field_value's argument name
    value              \* what resolve_field_value returned

replayVars == <<issue, include_resolution_changes, hidx, iidx, change_date,
                last_status, last_resolution, is_resolved, size, out>>

ctorVars == <<jira, settings_fields, managers>>

findVars == <<max_results, expand, total, page_cap, fromRow, issues, requests,
              pages, failed, result>>

valueVars == <<python, known_values, field_value, logical_name, value>>

vars == <<pc, fields, raised, replayVars, ctorVars, findVars, valueVars>>

\* ---------------------------------------------------------- constructors
IssueSnapshot(change, key, date, status, resolution, resolved) ==
    [change |-> change, key |-> key, date |-> AsUTC(date), status |-> status,
     resolution |-> resolution, is_resolved |-> resolved]

IssueSizeSnapshot(change, key, date, sz) ==
    [change |-> change, key |-> key, date |-> AsUTC(date), size |-> sz]

\* itertools.chain.from_iterable([c.items for c in histories])
RECURSIVE ChainItems(_)
ChainItems(histories) ==
    IF histories = <<>> THEN <<>>
    ELSE Head(histories).items \o ChainItems(Tail(histories))

FilterField(items, name) ==
    LET Test(it) == it.field = name IN SelectSeq(items, Test)

\* ------------------------------------------------------------ iter_changes
\* status_changes: every status delta of the changelog, in changelog order.
StatusChanges(iss) == FilterField(ChainItems(iss.histories), "status")

\* Mutant: the to-value of the first status delta is taken.
FirstStatus_ToValue(iss) ==
    LET status_changes == StatusChanges(iss)
    IN  IF Len(status_changes) > 0 THEN status_changes[1].toString
        ELSE iss.statusName

\* Mutant: the first delta of the changelog is taken, whatever its field.
FirstStatus_AnyField(iss) ==
    LET status_changes == StatusChanges(iss)
    IN  IF Len(status_changes) > 0 THEN ChainItems(iss.histories)[1].fromString
        ELSE iss.statusName

\* The status the issue was created with.
FirstStatus(iss) ==
    LET status_changes == StatusChanges(iss)
    IN  IF Len(status_changes) > 0 THEN status_changes[1].fromString
        ELSE iss.statusName

\* Mutant: the flag is not carried over a record without resolution delta.
NextResolved_NotCarried(items, resolved) ==
    LET resolutions == FilterField(items, "resolution")
    IN  IF Len(resolutions) > 0 THEN resolutions[Len(resolutions)].to # NONE
        ELSE FALSE

\* Mutant: the first resolution delta of the record decides, not the last.
NextResolved_FirstDelta(items, resolved) ==
    LET resolutions == FilterField(items, "resolution")
    IN  IF Len(resolutions) > 0 THEN resolutions[1].to # NONE
        ELSE resolved

\* The resolved flag for a history record, fixed before its items are walked.
NextResolved(items, resolved) ==
    LET resolutions == FilterField(items, "resolution")
    IN  IF Len(resolutions) > 0 THEN resolutions[Len(resolutions)].to # NONE
        ELSE resolved

\* Mutant: the resolution snapshot is yielded before the running resolution
\* is updated.
ChangeItemStep_StaleResolution(item, key, date, status, resolution, resolved, flag) ==
    IF item.field = "status" THEN
        [last_status |-> item.toString,
         last_resolution |-> resolution,
         yields |-> <<IssueSnapshot(item.field, key, date, item.toString,
                                    resolution, resolved)>>]
    ELSE IF item.field = "resolution" THEN
        [last_status |-> status,
         last_resolution |-> item.toString,
         yields |-> IF flag
                    THEN <<IssueSnapshot(item.field, key, date, status,
                                         resolution, resolved)>>
                    ELSE <<>>]
    ELSE
        [last_status |-> status, last_resolution |-> resolution,
         yields |-> <<>>]

\* Mutant: the emission flag is read inverted.
ChangeItemStep_FlagInverted(item, key, date, status, resolution, resolved, flag) ==
    IF item.field = "status" THEN
        [last_status |-> item.toString,
         last_resolution |-> resolution,
         yields |-> <<IssueSnapshot(item.field, key, date, item.toString,
                                    resolution, resolved)>>]
    ELSE IF item.field = "resolution" THEN
        [last_status |-> status,
         last_resolution |-> item.toString,
         yields |-> IF ~flag
                    THEN <<IssueSnapshot(item.field, key, date, status,
                                         item.toString, resolved)>>
                    ELSE <<>>]
    ELSE
        [last_status |-> status, last_resolution |-> resolution,
         yields |-> <<>>]

\* Mutant: with emission disabled the resolution delta is skipped altogether.
ChangeItemStep_SilencedSkipped(item, key, date, status, resolution, resolved, flag) ==
    IF item.field = "status" THEN
        [last_status |-> item.toString,
         last_resolution |-> resolution,
         yields |-> <<IssueSnapshot(item.field, key, date, item.toString,
                                    resolution, resolved)>>]
    ELSE IF item.field = "resolution" /\ flag THEN
        [last_status |-> status,
         last_resolution |-> item.toString,
         yields |-> <<IssueSnapshot(item.field, key, date, status,
                                    item.toString, resolved)>>]
    ELSE
        [last_status |-> status, last_resolution |-> resolution,
         yields |-> <<>>]

\* One pass of the item loop: the running status and resolution after the
\* item, and the snapshots it yields.
ChangeItemStep(item, key, date, status, resolution, resolved, flag) ==
    IF item.field = "status" THEN
        [last_status |-> item.toString,
         last_resolution |-> resolution,
         yields |-> <<IssueSnapshot(item.field, key, date, item.toString,
                                    resolution, resolved)>>]
    ELSE IF item.field = "resolution" THEN
        [last_status |-> status,
         last_resolution |-> item.toString,
         yields |-> IF flag
                    THEN <<IssueSnapshot(item.field, key, date, status,
                                         item.toString, resolved)>>
                    ELSE <<>>]
    ELSE
        [last_status |-> status, last_resolution |-> resolution,
         yields |-> <<>>]

\* The generator is created: nothing runs before the first next().
IterChangesCall ==
    /\ pc = "idle"
    /\ UNCHANGED valueVars
    /\ pc' = "ic_start"
    /\ issue' \in Issues
    /\ include_resolution_changes' \in BOOLEAN
    /\ UNCHANGED <<ctorVars, findVars>>
    /\ UNCHANGED <<fields, raised, hidx, iidx, change_date, last_status,
                   last_resolution, is_resolved, size, out>>

\* Mutant: the AttributeError of the missing changelog is not caught.
IterChangesStart_Uncaught ==
    /\ pc = "ic_start"
    /\ UNCHANGED valueVars
    /\ IF ~issue.hasChangelog
       THEN /\ pc' = "ic_done"
            /\ raised' = [type |-> "AttributeError", arg |-> "changelog"]
            /\ is_resolved' = FALSE
            /\ UNCHANGED <<last_status, last_resolution, out, hidx>>
       ELSE /\ is_resolved' = FALSE
            /\ last_status' = FirstStatus(issue)
            /\ last_resolution' = NONE
            /\ out' = <<IssueSnapshot(NONE, issue.key, ParseDate(issue.created),
                                      FirstStatus(issue), NONE, FALSE)>>
            /\ hidx' = 1
            /\ pc' = "ic_loop"
            /\ raised' = raised
    /\ UNCHANGED <<ctorVars, findVars>>
    /\ UNCHANGED <<fields, issue, include_resolution_changes, iidx,
                   change_date, size>>

\* Up to the creation snapshot; an issue without changelog ends the generator.
IterChangesStart ==
    /\ pc = "ic_start"
    /\ UNCHANGED valueVars
    /\ IF ~issue.hasChangelog
       THEN /\ pc' = "ic_done"
            /\ is_resolved' = FALSE
            /\ UNCHANGED <<last_status, last_resolution, out, hidx>>
       ELSE /\ is_resolved' = FALSE
            /\ last_status' = FirstStatus(issue)
            /\ last_resolution' = NONE
            /\ out' = <<IssueSnapshot(NONE, issue.key, ParseDate(issue.created),
                                      FirstStatus(issue), NONE, FALSE)>>
            /\ hidx' = 1
            /\ pc' = "ic_loop"
    /\ UNCHANGED <<ctorVars, findVars>>
    /\ UNCHANGED <<fields, raised, issue, include_resolution_changes, iidx,
                   change_date, size>>

\* The head of the loop over history records.
IterChangesHistory ==
    /\ pc = "ic_loop"
    /\ UNCHANGED valueVars
    /\ hidx <= Len(issue.histories)
    /\ LET change == issue.histories[hidx]
       IN  /\ change_date' = ParseDate(change.created)
           /\ is_resolved' = NextResolved(change.items, is_resolved)
           /\ IF Len(change.items) = 0
              THEN hidx' = hidx + 1 /\ pc' = "ic_loop" /\ iidx' = iidx
              ELSE hidx' = hidx /\ pc' = "ic_items" /\ iidx' = 1
    /\ UNCHANGED <<ctorVars, findVars>>
    /\ UNCHANGED <<fields, raised, issue, include_resolution_changes,
                   last_status, last_resolution, size, out>>

\* One item of the current history record.
IterChangesItem ==
    /\ pc = "ic_items"
    /\ UNCHANGED valueVars
    /\ LET items == issue.histories[hidx].items
           step == ChangeItemStep(items[iidx], issue.key, change_date,
                                  last_status, last_resolution, is_resolved,
                                  include_resolution_changes)
       IN  /\ last_status' = step.last_status
           /\ last_resolution' = step.last_resolution
           /\ out' = out \o step.yields
           /\ IF iidx = Len(items)
              THEN hidx' = hidx + 1 /\ pc' = "ic_loop" /\ iidx' = iidx
              ELSE hidx' = hidx /\ pc' = "ic_items" /\ iidx' = iidx + 1
    /\ UNCHANGED <<ctorVars, findVars>>
    /\ UNCHANGED <<fields, raised, issue, include_resolution_changes,
                   change_date, is_resolved, size>>

\* The history loop is exhausted: the generator ends.
IterChangesReturn ==
    /\ pc = "ic_loop"
    /\ UNCHANGED valueVars
    /\ hidx > Len(issue.histories)
    /\ pc' = "ic_done"
    /\ UNCHANGED <<ctorVars, findVars>>
    /\ UNCHANGED <<fields, raised, replayVars>>

\* The item loop of one history record from item i on, run to its end: the
\* running status and resolution it leaves and the snapshots it yields.
RECURSIVE WalkChangeItems(_, _, _, _, _, _, _, _)
WalkChangeItems(items, i, key, date, status, resolution, resolved, flag) ==
    IF i > Len(items)
    THEN [last_status |-> status, last_resolution |-> resolution,
          yields |-> <<>>]
    ELSE LET step == ChangeItemStep(items[i], key, date, status, resolution,
                                    resolved, flag)
             rest == WalkChangeItems(items, i + 1, key, date, step.last_status,
                                     step.last_resolution, resolved, flag)
         IN  [last_status |-> rest.last_status,
              last_resolution |-> rest.last_resolution,
              yields |-> step.yields \o rest.yields]

\* The loop over the history records from record h on: the snapshots yielded.
RECURSIVE WalkChangeHistories(_, _, _, _, _, _, _)
WalkChangeHistories(hs, h, key, status, resolution, resolved, flag) ==
    IF h > Len(hs) THEN <<>>
    ELSE LET now == NextResolved(hs[h].items, resolved)
             walk == WalkChangeItems(hs[h].items, 1, key,
                                     ParseDate(hs[h].created), status,
                                     resolution, now, flag)
         IN  walk.yields \o
             WalkChangeHistories(hs, h + 1, key, walk.last_status,
                                 walk.last_resolution, now, flag)

\* list(iter_changes(iss, flag)): the generator consumed in full.
ListIterChanges(iss, flag) ==
    IF ~iss.hasChangelog THEN <<>>
    ELSE <<IssueSnapshot(NONE, iss.key, ParseDate(iss.created),
                         FirstStatus(iss), NONE, FALSE)>>
         \o WalkChangeHistories(iss.histories, 1, iss.key, FirstStatus(iss),
                                NONE, FALSE, flag)

\* ------------------------------------------------------- iter_size_changes
\* size_changes: every Story Points delta of the changelog, in changelog order.
SizeChanges(iss) == FilterField(ChainItems(iss.histories), "Story Points")

\* issue.fields.__dict__[self.fields['StoryPoints']], None on any failure.
CurrentSize(iss, mapping) ==
    IF "StoryPoints" \notin DOMAIN mapping THEN NONE
    ELSE IF mapping["StoryPoints"] \notin DOMAIN iss.dict THEN NONE
    ELSE iss.dict[mapping["StoryPoints"]]

\* Mutant: a null from-value falls back to the current size.
FirstSize_NullFallsBack(iss, mapping) ==
    LET size_changes == SizeChanges(iss)
    IN  IF Len(size_changes) # 0 /\ size_changes[1].fromString # NONE
        THEN size_changes[1].fromString
        ELSE CurrentSize(iss, mapping)

\* The size the issue was created with.
FirstSize(iss, mapping) ==
    LET size_changes == SizeChanges(iss)
    IN  IF Len(size_changes) # 0 THEN size_changes[1].fromString
        ELSE CurrentSize(iss, mapping)

\* Mutant: the snapshot is yielded before the running size is updated.
SizeItemStep_StaleSize(item, key, date, sz) ==
    IF item.field = "Story Points" THEN
        [size |-> item.toString,
         yields |-> <<IssueSizeSnapshot(item.field, key, date, sz)>>]
    ELSE
        [size |-> sz, yields |-> <<>>]

\* One pass of the item loop: the running size after the item, and the
\* snapshots it yields.
SizeItemStep(item, key, date, sz) ==
    IF item.field = "Story Points" THEN
        [size |-> item.toString,
         yields |-> <<IssueSizeSnapshot(item.field, key, date, item.toString)>>]
    ELSE
        [size |-> sz, yields |-> <<>>]

\* The generator is created: nothing runs before the first next().
IterSizeChangesCall ==
    /\ pc = "idle"
    /\ UNCHANGED valueVars
    /\ pc' = "is_start"
    /\ issue' \in Issues
    /\ UNCHANGED <<ctorVars, findVars>>
    /\ UNCHANGED <<fields, raised, include_resolution_changes, hidx, iidx,
                   change_date, last_status, last_resolution, is_resolved,
                   size, out>>

\* Mutant: a changelog without history record is taken for a missing one.
IterSizeChangesStart_EmptyIsMissing ==
    /\ pc = "is_start"
    /\ UNCHANGED valueVars
    /\ IF ~issue.hasChangelog \/ issue.histories = <<>>
       THEN /\ pc' = "is_done"
            /\ UNCHANGED <<size, out, hidx>>
       ELSE /\ size' = FirstSize(issue, fields)
            /\ out' = <<IssueSizeSnapshot(NONE, issue.key,
                                          ParseDate(issue.created),
                                          FirstSize(issue, fields))>>
            /\ hidx' = 1
            /\ pc' = "is_loop"
    /\ UNCHANGED <<ctorVars, findVars>>
    /\ UNCHANGED <<fields, raised, issue, include_resolution_changes, iidx,
                   change_date, last_status, last_resolution, is_resolved>>

\* Up to the creation snapshot; an issue without changelog ends the generator.
IterSizeChangesStart ==
    /\ pc = "is_start"
    /\ UNCHANGED valueVars
    /\ IF ~issue.hasChangelog
       THEN /\ pc' = "is_done"
            /\ UNCHANGED <<size, out, hidx>>
       ELSE /\ size' = FirstSize(issue, fields)
            /\ out' = <<IssueSizeSnapshot(NONE, issue.key,
                                          ParseDate(issue.created),
                                          FirstSize(issue, fields))>>
            /\ hidx' = 1
            /\ pc' = "is_loop"
    /\ UNCHANGED <<ctorVars, findVars>>
    /\ UNCHANGED <<fields, raised, issue, include_resolution_changes, iidx,
                   change_date, last_status, last_resolution, is_resolved>>

\* The head of the loop over history records.
IterSizeChangesHistory ==
    /\ pc = "is_loop"
    /\ UNCHANGED valueVars
    /\ hidx <= Len(issue.histories)
    /\ LET change == issue.histories[hidx]
       IN  /\ change_date' = ParseDate(change.created)
           /\ IF Len(change.items) = 0
              THEN hidx' = hidx + 1 /\ pc' = "is_loop" /\ iidx' = iidx
              ELSE hidx' = hidx /\ pc' = "is_items" /\ iidx' = 1
    /\ UNCHANGED <<ctorVars, findVars>>
    /\ UNCHANGED <<fields, raised, issue, include_resolution_changes,
                   last_status, last_resolution, is_resolved, size, out>>

\* One item of the current history record.
IterSizeChangesItem ==
    /\ pc = "is_items"
    /\ UNCHANGED valueVars
    /\ LET items == issue.histories[hidx].items
           step == SizeItemStep(items[iidx], issue.key, change_date, size)
       IN  /\ size' = step.size
           /\ out' = out \o step.yields
           /\ IF iidx = Len(items)
              THEN hidx' = hidx + 1 /\ pc' = "is_loop" /\ iidx' = iidx
              ELSE hidx' = hidx /\ pc' = "is_items" /\ iidx' = iidx + 1
    /\ UNCHANGED <<ctorVars, findVars>>
    /\ UNCHANGED <<fields, raised, issue, include_resolution_changes,
                   change_date, last_status, last_resolution, is_resolved>>

\* The history loop is exhausted: the generator ends.
IterSizeChangesReturn ==
    /\ pc = "is_loop"
    /\ UNCHANGED valueVars
    /\ hidx > Len(issue.histories)
    /\ pc' = "is_done"
    /\ UNCHANGED <<ctorVars, findVars>>
    /\ UNCHANGED <<fields, raised, replayVars>>

\* The item loop of one history record from item i on, run to its end.
RECURSIVE WalkSizeItems(_, _, _, _, _)
WalkSizeItems(items, i, key, date, sz) ==
    IF i > Len(items) THEN [size |-> sz, yields |-> <<>>]
    ELSE LET step == SizeItemStep(items[i], key, date, sz)
             rest == WalkSizeItems(items, i + 1, key, date, step.size)
         IN  [size |-> rest.size, yields |-> step.yields \o rest.yields]

\* The loop over the history records from record h on: the snapshots yielded.
RECURSIVE WalkSizeHistories(_, _, _, _)
WalkSizeHistories(hs, h, key, sz) ==
    IF h > Len(hs) THEN <<>>
    ELSE LET walk == WalkSizeItems(hs[h].items, 1, key,
                                   ParseDate(hs[h].created), sz)
         IN  walk.yields \o WalkSizeHistories(hs, h + 1, key, walk.size)

\* list(iter_size_changes(iss)) for a manager with the given field mapping.
ListIterSizeChanges(iss, mapping) ==
    IF ~iss.hasChangelog THEN <<>>
    ELSE <<IssueSizeSnapshot(NONE, iss.key, ParseDate(iss.created),
                             FirstSize(iss, mapping))>>
         \o WalkSizeHistories(iss.histories, 1, iss.key,
                              FirstSize(iss, mapping))

\* ------------------------------------------------ __init__, resolve_fields
\* str.lower() on the field names and labels of the model.
Lower(str) ==
    IF str \in {"Story Points", "STORY POINTS", "story points"}
        THEN "story points"
    ELSE IF str \in {"Team", "team"} THEN "team"
    ELSE IF str \in {"Epic Link", "epic link"} THEN "epic link"
    ELSE str

\* The entries a field catalog is made of.
CatalogEntries ==
    {[id |-> SizeFieldId, name |-> "Story Points"],
     [id |-> "customfield_10004", name |-> "STORY POINTS"],
     [id |-> "customfield_10003", name |-> "Team"]}

IsInjective(f) == \A a, b \in DOMAIN f : f[a] = f[b] => a = b

Catalogs ==
    UNION {{c \in [1..n -> CatalogEntries] : IsInjective(c)} :
           n \in 0..MaxCatalog}

\* settings['fields']: logical names with their labels, in items() order.
LogicalNames == {"StoryPoints", "Team"}
Labels == {"story points", "Team", "Epic Link"}

FieldSettings ==
    UNION {{c \in [1..n -> LogicalNames \X Labels] :
               \A a, b \in 1..n : c[a][1] = c[b][1] => a = b} :
           n \in 0..MaxConfigured}

\* self.fields[name] = id
Put(mapping, name, id) == (name :> id) @@ mapping

\* next(f['id'] for f in catalog if f['name'].lower() == label.lower()):
\* the catalog entries that match, in catalog order.
Matches(catalog, label) ==
    LET Test(f) == Lower(f.name) = Lower(label) IN SelectSeq(catalog, Test)

\* The loop of resolve_fields from the k-th configured field on: the mapping
\* it leaves and the exception it raises.
RECURSIVE ResolveFrom(_, _, _, _)
ResolveFrom(mapping, cfg, k, catalog) ==
    IF k > Len(cfg) THEN [fields |-> mapping, raised |-> NoException]
    ELSE LET name == cfg[k][1]
             label == cfg[k][2]
             found == Matches(catalog, label)
         IN  IF found = <<>>
             THEN [fields |-> mapping,
                   raised |-> [type |-> "Exception", arg |-> label]]
             ELSE ResolveFrom(Put(mapping, name, found[1].id), cfg, k + 1,
                              catalog)

\* QueryManager(jira, fields=cfg): __init__ stores the settings and runs
\* resolve_fields, which writes into the class attribute QueryManager.fields.
Construct(catalog, cfg) ==
    /\ pc \in {"idle", "init_failed"}
    /\ UNCHANGED valueVars
    /\ managers < MaxManagers
    /\ managers' = managers + 1
    /\ jira' = catalog
    /\ settings_fields' = cfg
    /\ LET r == ResolveFrom(fields, cfg, 1, catalog)
       IN  /\ fields' = r.fields
           /\ raised' = r.raised
           /\ pc' = IF r.raised = NoException THEN "idle" ELSE "init_failed"
    /\ UNCHANGED <<replayVars, findVars>>

\* ------------------------------------------------------ resolve_field_value
\* The interpreters the module's imports allow: past.builtins serves both.
Pythons == {"py2", "py3"}

\* Strings a field can hold: plain text, a well-formed timestamp, and a
\* string of the timestamp's shape that names no date.
PlainText == "hello"
GoodDate == "2021-03-04T10:15:30.123+0200"
BadDate == "2021-13-45T10:15:30.123+0200"
FieldStrings == {PlainText, GoodDate, BadDate}

\* regex.match(value) for the date pattern of resolve_field_value.
MatchesDatePattern(str) == str \in {GoodDate, BadDate}

\* dateutil.parser.parse(value).replace(tzinfo=None): the naive datetime, or
\* the ValueError of a month or day out of range.
ParseNaive(str) ==
    IF str = GoodDate
    THEN [raised |-> NoException,
          value |-> Typed("datetime", "2021-03-04 10:15:30.123000")]
    ELSE [raised |-> [type |-> "ValueError", arg |-> str],
          value |-> NoneValue]

\* The elements of a collection: objects with a name, or plain strings.
ElementNames == {"A", "B", "C"}
Elements == [named : BOOLEAN, name : ElementNames]

Collections == UNION {[1..n -> Elements] : n \in 0..MaxElements}

\* The raw values of the model.
RawValues ==
    {AbsentValue, Raw("None", NONE, NONE, NONE, <<>>),
     Raw("int", "5", NONE, NONE, <<>>), Raw("bool", "True", NONE, NONE, <<>>)}
    \cup {Raw("str", str, NONE, NONE, <<>>) : str \in FieldStrings}
    \cup {Raw("option", "Parent", ch, NONE, <<>>) : ch \in {NONE, "Child"}}
    \cup {Raw("object", "PROJ", NONE, f, <<>>) :
              f \in {NONE, "TypeError", "UnicodeEncodeError"}}
    \cup {Raw("list", NONE, NONE, NONE, c) : c \in Collections}

\* settings['known_values']: no allow-list, or one for the name Type.
AllowLists ==
    UNION {{a \in [1..n -> ElementNames] : IsInjective(a)} :
           n \in 0..MaxAllowed}

KnownValueSettings == {<<>>} \cup {("Type" :> a) : a \in AllowLists}

ValueNames == {"Type", "Labels"}

\* [getattr(v, 'name', v) for v in value]
NamesOf(elems) == [k \in 1..Len(elems) |-> elems[k].name]

\* '|'.join([str(x) for x in values])
RECURSIVE Join(_)
Join(values) ==
    IF values = <<>> THEN ""
    ELSE IF Len(values) = 1 THEN values[1]
    ELSE values[1] \o "|" \o Join(Tail(values))

Contains(values, v) == \E k \in 1..Len(values) : values[k] = v

\* next(itertools.ifilter(lambda v: v in values, allowed)), None on
\* StopIteration.  itertools has no ifilter under Python 3: the attribute
\* lookup raises AttributeError, which the except clause does not catch.
FirstKnown(values, allowed, interpreter) ==
    IF interpreter = "py3"
    THEN [raised |-> [type |-> "AttributeError", arg |-> "ifilter"],
          value |-> NoneValue]
    ELSE LET hits == {k \in 1..Len(allowed) : Contains(values, allowed[k])}
         IN  IF hits = {}
             THEN [raised |-> NoException, value |-> NoneValue]
             ELSE [raised |-> NoException,
                   value |-> Typed("str",
                       allowed[CHOOSE k \in hits : \A j \in hits : k <= j])]

\* The branch for list and tuple values.
NormalizeCollection(elems, name, known, interpreter) ==
    IF Len(elems) = 0
    THEN [raised |-> NoException, value |-> NoneValue]
    ELSE IF name \notin DOMAIN known
    THEN [raised |-> NoException,
          value |-> Typed("str", Join(NamesOf(elems)))]
    ELSE FirstKnown(NamesOf(elems), known[name], interpreter)

\* The date branch for a string value.
NormalizeString(str) ==
    IF MatchesDatePattern(str) THEN ParseNaive(str)
    ELSE [raised |-> NoException, value |-> Typed("str", str)]

\* resolve_field_value(issue, name, field_name) for the raw value the issue
\* holds under field_name: the value returned and the exception raised.
Normalize(raw, name, known, interpreter) ==
    IF raw.kind \in {"absent", "None"}
        THEN [raised |-> NoException, value |-> NoneValue]
    ELSE IF raw.kind = "list"
        THEN NormalizeCollection(raw.elems, name, known, interpreter)
    ELSE IF raw.kind = "option"
        THEN NormalizeString(IF raw.child # NONE
                             THEN raw.text \o "|" \o raw.child
                             ELSE raw.text)
    ELSE IF raw.kind = "str" THEN NormalizeString(raw.text)
    ELSE IF raw.kind \in {"int", "bool"}
        THEN [raised |-> NoException, value |-> Typed(raw.kind, raw.text)]
    ELSE IF raw.strfail = NONE THEN NormalizeString(raw.text)
    ELSE IF raw.strfail = "TypeError"
        THEN [raised |-> NoException, value |-> Typed("object", raw.text)]
    ELSE [raised |-> [type |-> raw.strfail, arg |-> raw.text],
          value |-> NoneValue]

\* One call of resolve_field_value, from entry to return or exception.
ResolveFieldValue ==
    /\ pc = "idle"
    /\ \E raw \in RawValues, name \in ValueNames :
          LET r == Normalize(raw, name, known_values, python)
          IN  /\ field_value' = raw
              /\ logical_name' = name
              /\ value' = r.value
              /\ raised' = r.raised
    /\ pc' = "rv_done"
    /\ UNCHANGED <<fields, replayVars, ctorVars, findVars, python,
                   known_values>>

\* -------------------------------------------------------------- find_issues
\* The issues matching the query, in the requested order.
ResultSet(n) == [k \in 1..n |-> k]

Min(a, b) == IF a <= b THEN a ELSE b

\* What the service answers to search_issues(maxResults, startAt).
Page(n, cap, maxResults, startAt) ==
    SubSeq(ResultSet(n), startAt + 1, Min(startAt + Min(maxResults, cap), n))

\* find_issues is entered: the query is built, the loop has not started.
FindIssuesCall ==
    /\ pc = "idle"
    /\ UNCHANGED valueVars
    /\ pc' = "fi_loop"
    /\ expand' \in BOOLEAN
    /\ fromRow' = 0
    /\ issues' = <<>>
    /\ UNCHANGED <<fields, raised, replayVars, ctorVars, max_results, total,
                   page_cap, requests, pages, failed, result>>

\* Mutant: the offset advances by the number of issues received.
SearchReturns_AdvanceByPage ==
    /\ pc = "fi_loop"
    /\ UNCHANGED valueVars
    /\ LET pageofissues == Page(total, page_cap, max_results, fromRow)
       IN  /\ requests' = Append(requests, [startAt |-> fromRow,
                                            maxResults |-> max_results,
                                            expand |-> expand])
           /\ pages' = Append(pages, pageofissues)
           /\ fromRow' = fromRow + Len(pageofissues)
           /\ issues' = issues \o pageofissues
           /\ pc' = IF Len(pageofissues) = 0 THEN "fi_return" ELSE "fi_loop"
    /\ UNCHANGED <<fields, raised, replayVars, ctorVars, max_results, expand,
                   total, page_cap, failed, result>>

\* One pass of the loop in which search_issues returns a page.
SearchReturns ==
    /\ pc = "fi_loop"
    /\ UNCHANGED valueVars
    /\ LET pageofissues == Page(total, page_cap, max_results, fromRow)
       IN  /\ requests' = Append(requests, [startAt |-> fromRow,
                                            maxResults |-> max_results,
                                            expand |-> expand])
           /\ pages' = Append(pages, pageofissues)
           /\ fromRow' = fromRow + max_results
           /\ issues' = issues \o pageofissues
           /\ pc' = IF Len(pageofissues) = 0 THEN "fi_return" ELSE "fi_loop"
    /\ UNCHANGED <<fields, raised, replayVars, ctorVars, max_results, expand,
                   total, page_cap, failed, result>>

\* Mutant: the error is logged and the loop goes on with the next page.
SearchRaises_Continues ==
    /\ pc = "fi_loop"
    /\ UNCHANGED valueVars
    /\ requests' = Append(requests, [startAt |-> fromRow,
                                     maxResults |-> max_results,
                                     expand |-> expand])
    /\ failed' = TRUE
    /\ fromRow' = fromRow + max_results
    /\ pc' = IF fromRow >= total THEN "fi_return" ELSE "fi_loop"
    /\ UNCHANGED <<fields, raised, replayVars, ctorVars, max_results, expand,
                   total, page_cap, issues, pages, result>>

\* One pass of the loop in which search_issues raises JIRAError.
SearchRaises ==
    /\ pc = "fi_loop"
    /\ UNCHANGED valueVars
    /\ requests' = Append(requests, [startAt |-> fromRow,
                                     maxResults |-> max_results,
                                     expand |-> expand])
    /\ failed' = TRUE
    /\ result' = <<>>
    /\ pc' = "fi_done"
    /\ UNCHANGED <<fields, raised, replayVars, ctorVars, max_results, expand,
                   total, page_cap, fromRow, issues, pages>>

\* The loop was left by break: the collected issues are returned.
FindIssuesReturn ==
    /\ pc = "fi_return"
    /\ UNCHANGED valueVars
    /\ result' = issues
    /\ pc' = "fi_done"
    /\ UNCHANGED <<fields, raised, replayVars, ctorVars, max_results, expand,
                   total, page_cap, fromRow, issues, requests, pages, failed>>

\* ------------------------------------------------------- specifications
NoIssue ==
    [key |-> IssueKey, created |-> TimeString(0), hasChangelog |-> FALSE,
     histories |-> <<>>, statusName |-> "Open", dict |-> <<>>]

ReplayInit ==
    /\ pc = "idle"
    /\ fields \in ReplayMappings
    /\ raised = NoException
    /\ issue = NoIssue
    /\ include_resolution_changes = TRUE
    /\ hidx = 0
    /\ iidx = 0
    /\ change_date = ParseDate(TimeString(0))
    /\ last_status = NONE
    /\ last_resolution = NONE
    /\ is_resolved = FALSE
    /\ size = NONE
    /\ out = <<>>
    /\ jira = <<>>
    /\ settings_fields = <<>>
    /\ managers = 1
    /\ max_results = DefaultMaxResults
    /\ expand = TRUE
    /\ total = 0
    /\ page_cap = DefaultMaxResults
    /\ fromRow = 0
    /\ issues = <<>>
    /\ requests = <<>>
    /\ pages = <<>>
    /\ failed = FALSE
    /\ result = <<>>
    /\ python = "py3"
    /\ known_values = <<>>
    /\ field_value = AbsentValue
    /\ logical_name = NONE
    /\ value = NoneValue

ReplayNext ==
    \/ IterChangesCall
    \/ IterChangesStart
    \/ IterChangesHistory
    \/ IterChangesItem
    \/ IterChangesReturn
    \/ IterSizeChangesCall
    \/ IterSizeChangesStart
    \/ IterSizeChangesHistory
    \/ IterSizeChangesItem
    \/ IterSizeChangesReturn

SpecReplay == ReplayInit /\ [][ReplayNext]_vars

\* Before any QueryManager exists: the class attribute is the empty dict.
FieldsInit ==
    /\ pc = "idle"
    /\ fields = <<>>
    /\ raised = NoException
    /\ issue = NoIssue
    /\ include_resolution_changes = TRUE
    /\ hidx = 0
    /\ iidx = 0
    /\ change_date = ParseDate(TimeString(0))
    /\ last_status = NONE
    /\ last_resolution = NONE
    /\ is_resolved = FALSE
    /\ size = NONE
    /\ out = <<>>
    /\ jira = <<>>
    /\ settings_fields = <<>>
    /\ managers = 0
    /\ max_results = DefaultMaxResults
    /\ expand = TRUE
    /\ total = 0
    /\ page_cap = DefaultMaxResults
    /\ fromRow = 0
    /\ issues = <<>>
    /\ requests = <<>>
    /\ pages = <<>>
    /\ failed = FALSE
    /\ result = <<>>
    /\ python = "py3"
    /\ known_values = <<>>
    /\ field_value = AbsentValue
    /\ logical_name = NONE
    /\ value = NoneValue

FieldsNext ==
    \E catalog \in Catalogs, cfg \in FieldSettings : Construct(catalog, cfg)

SpecFields == FieldsInit /\ [][FieldsNext]_vars

\* A QueryManager with some page size, facing a service with some result set.
FindInit ==
    /\ pc = "idle"
    /\ fields = <<>>
    /\ raised = NoException
    /\ issue = NoIssue
    /\ include_resolution_changes = TRUE
    /\ hidx = 0
    /\ iidx = 0
    /\ change_date = ParseDate(TimeString(0))
    /\ last_status = NONE
    /\ last_resolution = NONE
    /\ is_resolved = FALSE
    /\ size = NONE
    /\ out = <<>>
    /\ jira = <<>>
    /\ settings_fields = <<>>
    /\ managers = 1
    /\ max_results \in 1..MaxPageSize
    /\ expand = TRUE
    /\ total \in 0..MaxIssues
    /\ page_cap \in 1..MaxPageSize
    /\ fromRow = 0
    /\ issues = <<>>
    /\ requests = <<>>
    /\ pages = <<>>
    /\ failed = FALSE
    /\ result = <<>>
    /\ python = "py3"
    /\ known_values = <<>>
    /\ field_value = AbsentValue
    /\ logical_name = NONE
    /\ value = NoneValue

FindNext ==
    \/ FindIssuesCall
    \/ SearchReturns
    \/ SearchRaises
    \/ FindIssuesReturn

SpecFind == FindInit /\ [][FindNext]_vars

\* A QueryManager with some allow-lists, under either interpreter.
ValueInit ==
    /\ pc = "idle"
    /\ fields = <<>>
    /\ raised = NoException
    /\ issue = NoIssue
    /\ include_resolution_changes = TRUE
    /\ hidx = 0
    /\ iidx = 0
    /\ change_date = ParseDate(TimeString(0))
    /\ last_status = NONE
    /\ last_resolution = NONE
    /\ is_resolved = FALSE
    /\ size = NONE
    /\ out = <<>>
    /\ jira = <<>>
    /\ settings_fields = <<>>
    /\ managers = 1
    /\ max_results = DefaultMaxResults
    /\ expand = TRUE
    /\ total = 0
    /\ page_cap = DefaultMaxResults
    /\ fromRow = 0
    /\ issues = <<>>
    /\ requests = <<>>
    /\ pages = <<>>
    /\ failed = FALSE
    /\ result = <<>>
    /\ python \in Pythons
    /\ known_values \in KnownValueSettings
    /\ field_value = AbsentValue
    /\ logical_name = NONE
    /\ value = NoneValue

ValueNext == ResolveFieldValue

SpecValue == ValueInit /\ [][ValueNext]_vars

\* ------------------------------------------------- vocabulary of the claims
\* The instant of a datetime, whatever zone it is expressed in.
Instant(d) == d.local - d.utcoffset

\* The instant at which history record h of the changelog was created.
RecordInstant(iss, h) == iss.histories[h].created[1] - iss.histories[h].created[2]

\* The history record a snapshot was emitted for (0: the creation snapshot),
\* found by its timestamp: record h was created at instant h.
RecordOf(snap) == Instant(snap.date)

\* The positions <<h, i>> of the deltas whose field is in F, in changelog
\* order: history records in given order, deltas in given order in a record.
RECURSIVE PositionsFrom(_, _, _, _)
PositionsFrom(hs, h, i, F) ==
    IF h > Len(hs) THEN <<>>
    ELSE IF i > Len(hs[h].items) THEN PositionsFrom(hs, h + 1, 1, F)
    ELSE (IF hs[h].items[i].field \in F THEN << <<h, i>> >> ELSE <<>>)
         \o PositionsFrom(hs, h, i + 1, F)

Positions(iss, F) == PositionsFrom(iss.histories, 1, 1, F)

DeltaAt(iss, pos) == iss.histories[pos[1]].items[pos[2]]

\* The last resolution delta of history record h has a null new value.
ClearsResolution(iss, h) ==
    LET items == iss.histories[h].items
    IN  /\ \E i \in 1..Len(items) : items[i].field = "resolution"
        /\ LET last == CHOOSE i \in 1..Len(items) :
                        /\ items[i].field = "resolution"
                        /\ \A j \in (i + 1)..Len(items) :
                               items[j].field # "resolution"
           IN  items[last].to = NONE

InChanges == pc \in {"ic_loop", "ic_items", "ic_done"}
InSizes == pc \in {"is_loop", "is_items", "is_done"}

\* ------------------------------------------------------------------ C2
\* C2 as stated: in the snapshots of one iter_changes replay, no snapshot with
\* is_resolved = FALSE follows one with is_resolved = TRUE.
C2_ResolvedNeverReset ==
    InChanges =>
        \A a, b \in 1..Len(out) :
            (a < b /\ out[a].is_resolved) => out[b].is_resolved

\* C2 amended: a snapshot with is_resolved = FALSE follows one with
\* is_resolved = TRUE only when a history record after the first snapshot's
\* record, up to the later snapshot's record, has a last resolution delta
\* whose new value is null.
C2_ResolvedResetOnlyByClearedResolution ==
    InChanges =>
        \A a, b \in 1..Len(out) :
            (a < b /\ out[a].is_resolved /\ ~out[b].is_resolved) =>
                \E h \in (RecordOf(out[a]) + 1)..RecordOf(out[b]) :
                    ClearsResolution(issue, h)

C2_Witness ==
    /\ pc = "ic_done"
    /\ \E a, b, c \in 1..Len(out) :
          /\ a < b /\ b < c
          /\ out[a].is_resolved /\ out[b].is_resolved /\ ~out[c].is_resolved

\* ------------------------------------------------------------------ C3
\* A status snapshot as the caller sees it, at UTC instant t.
StatusSnap(change, t, status, resolution, resolved) ==
    [change |-> change, key |-> IssueKey,
     date |-> [local |-> t, utcoffset |-> 0], status |-> status,
     resolution |-> resolution, is_resolved |-> resolved]

C3_StatusDelta == Item("status", "Open", "In Progress")
C3_ResolutionDelta == Item("resolution", NONE, "Fixed")

\* The replay, with default arguments, of a changelog of one history record
\* holding the two deltas in either order has ended.
C3_Case ==
    /\ pc = "ic_done"
    /\ include_resolution_changes
    /\ issue.hasChangelog
    /\ Len(issue.histories) = 1
    /\ issue.histories[1].items \in
          {<<C3_StatusDelta, C3_ResolutionDelta>>,
           <<C3_ResolutionDelta, C3_StatusDelta>>}

\* C3 as stated: the replay yields exactly the creation snapshot and one
\* status snapshot at T1 that already carries resolution Fixed, for either
\* order of the two deltas.
C3_TwoSnapshots ==
    C3_Case =>
        out = <<StatusSnap(NONE, 0, "Open", NONE, FALSE),
                StatusSnap("status", 1, "In Progress", "Fixed", TRUE)>>

\* C3 amended: the replay yields three snapshots, the creation snapshot and
\* one per delta in the record's order, both at T1 with resolved = TRUE; the
\* resolution label is applied when the resolution delta is reached, so the
\* status snapshot carries Fixed only when the resolution delta comes first.
C3_ThreeSnapshots ==
    C3_Case =>
        out = IF issue.histories[1].items[1] = C3_ResolutionDelta
              THEN <<StatusSnap(NONE, 0, "Open", NONE, FALSE),
                     StatusSnap("resolution", 1, "Open", "Fixed", TRUE),
                     StatusSnap("status", 1, "In Progress", "Fixed", TRUE)>>
              ELSE <<StatusSnap(NONE, 0, "Open", NONE, FALSE),
                     StatusSnap("status", 1, "In Progress", NONE, TRUE),
                     StatusSnap("resolution", 1, "In Progress", "Fixed", TRUE)>>

C3_Witness ==
    /\ C3_Case
    /\ issue.histories[1].items = <<C3_StatusDelta, C3_ResolutionDelta>>
    /\ Len(out) = 3

\* ------------------------------------------------------------------ C4
\* C4: with resolution-change emission enabled, the replay of an issue with a
\* changelog is the creation snapshot (change null) followed by exactly one
\* snapshot per status or resolution delta, in changelog order, each with
\* the delta's field name as change and the instant of the delta's history
\* record as date; other deltas yield nothing.
C4_OneSnapshotPerDelta ==
    (pc = "ic_done" /\ issue.hasChangelog /\ include_resolution_changes) =>
        LET pos == Positions(issue, {"status", "resolution"})
        IN  /\ Len(out) = 1 + Len(pos)
            /\ out[1].change = NONE
            /\ \A n \in 1..Len(pos) :
                  /\ out[n + 1].change = DeltaAt(issue, pos[n]).field
                  /\ Instant(out[n + 1].date) = RecordInstant(issue, pos[n][1])

C4_Witness ==
    /\ pc = "ic_done" /\ issue.hasChangelog /\ include_resolution_changes
    /\ Len(issue.histories) = 2
    /\ Positions(issue, {"status"}) # <<>>
    /\ Positions(issue, {"resolution"}) # <<>>
    /\ Positions(issue, {"Story Points"}) # <<>>
    /\ Len(out) = 3

\* ------------------------------------------------------------------ C5
\* The from-value of the first delta of field f: the first history record
\* holding one, the first such delta in it.
HasDelta(iss, f) ==
    \E h \in 1..Len(iss.histories) :
        \E i \in 1..Len(iss.histories[h].items) :
            iss.histories[h].items[i].field = f

FirstFrom(iss, f) ==
    LET Holds(h) == \E i \in 1..Len(iss.histories[h].items) :
                        iss.histories[h].items[i].field = f
        h0 == CHOOSE h \in 1..Len(iss.histories) :
                  Holds(h) /\ \A g \in 1..(h - 1) : ~Holds(g)
        items == iss.histories[h0].items
        i0 == CHOOSE i \in 1..Len(items) :
                  /\ items[i].field = f
                  /\ \A j \in 1..(i - 1) : items[j].field # f
    IN  items[i0].fromString

\* C5: the creation snapshot's status is the from-value of the first status
\* delta when the changelog has one, the issue's current status otherwise.
C5_CreationStatus ==
    (InChanges /\ issue.hasChangelog) =>
        out[1].status = IF HasDelta(issue, "status")
                        THEN FirstFrom(issue, "status")
                        ELSE issue.statusName

C5_Witness ==
    /\ pc = "ic_done" /\ issue.hasChangelog
    /\ Len(Positions(issue, {"status"})) = 2
    /\ FirstFrom(issue, "status") = "In Progress"
    /\ issue.statusName = "Done"
    /\ out[1].status = "In Progress"

\* ------------------------------------------------------------------ C6
\* C6: for an issue whose changelog is present but has no history record,
\* each generator yields exactly one snapshot, with change null.
C6_EmptyChangelog ==
    (pc \in {"ic_done", "is_done"} /\ issue.hasChangelog
        /\ issue.histories = <<>>) =>
        (Len(out) = 1 /\ out[1].change = NONE /\ raised = NoException)

C6_Witness ==
    /\ pc = "is_done" /\ issue.hasChangelog /\ issue.histories = <<>>
    /\ Len(out) = 1

\* ------------------------------------------------------------------ C7
\* C7: for an issue without changelog attribute, each generator ends without
\* yielding any snapshot and without raising.
C7_NoChangelog ==
    (pc \in {"ic_done", "is_done"} /\ ~issue.hasChangelog) =>
        (out = <<>> /\ raised = NoException)

C7_Witness ==
    pc = "ic_done" /\ ~issue.hasChangelog /\ out = <<>>

\* ------------------------------------------------------------------ C8
\* C8: the size replay of an issue with a changelog is the creation snapshot
\* (change null) followed by exactly one snapshot per Story Points delta, in
\* changelog order, whose size is the delta's toString as it stands; other
\* deltas yield nothing.
C8_OneSnapshotPerSizeDelta ==
    (pc = "is_done" /\ issue.hasChangelog) =>
        LET pos == Positions(issue, {"Story Points"})
        IN  /\ Len(out) = 1 + Len(pos)
            /\ out[1].change = NONE
            /\ \A n \in 1..Len(pos) :
                  /\ out[n + 1].change = "Story Points"
                  /\ out[n + 1].size = DeltaAt(issue, pos[n]).toString
                  /\ Instant(out[n + 1].date) = RecordInstant(issue, pos[n][1])

C8_Witness ==
    /\ pc = "is_done" /\ issue.hasChangelog
    /\ Len(Positions(issue, {"Story Points"})) = 2
    /\ Positions(issue, {"status", "resolution"}) # <<>>
    /\ Len(out) = 3
    /\ out[2].size # out[3].size

\* ------------------------------------------------------------------ C9
\* The issue's current size: the value stored under the field id that the
\* mapping gives for StoryPoints, null when there is none.
IssueSize(iss) ==
    IF \E id \in DOMAIN iss.dict :
           "StoryPoints" \in DOMAIN fields /\ fields["StoryPoints"] = id
    THEN iss.dict[fields["StoryPoints"]]
    ELSE NONE

\* C9: the creation snapshot's size is the from-value of the first Story
\* Points delta when the changelog has one (also when that value is null and
\* the issue has a current size), the issue's current size otherwise.
C9_CreationSize ==
    (InSizes /\ issue.hasChangelog) =>
        out[1].size = IF HasDelta(issue, "Story Points")
                      THEN FirstFrom(issue, "Story Points")
                      ELSE IssueSize(issue)

C9_Witness ==
    /\ pc = "is_done" /\ issue.hasChangelog
    /\ HasDelta(issue, "Story Points")
    /\ FirstFrom(issue, "Story Points") = NONE
    /\ IssueSize(issue) = "8"
    /\ out[1].size = NONE

\* ------------------------------------------------------------------ C1
RECURSIVE Concat(_)
Concat(seqs) == IF seqs = <<>> THEN <<>> ELSE Head(seqs) \o Concat(Tail(seqs))

\* C1 as stated: when the search request for page k+1 raises a transport
\* error after pages 1..k were returned, find_issues raises nothing and
\* returns exactly the issues of pages 1..k, in order.
C1_PartialResultsOnError ==
    (pc = "fi_done" /\ failed) =>
        (raised = NoException /\ result = Concat(pages))

\* ------------------------------------------------------------------ C10
\* The labels of cfg that no catalog entry matches, case ignored.
Unmatched(catalog, cfg) ==
    {cfg[k][2] : k \in {j \in 1..Len(cfg) :
        \A e \in 1..Len(catalog) : Lower(catalog[e].name) # Lower(cfg[j][2])}}

\* C10 as stated: a construction whose resolve_fields fails raises an error
\* naming an unmatched label and leaves the field mapping as it was before.
C10_AllOrNothing ==
    [][(managers' = managers + 1 /\ Unmatched(jira', settings_fields') # {}) =>
          /\ raised'.type = "Exception"
          /\ raised'.arg \in Unmatched(jira', settings_fields')
          /\ fields' = fields]_vars

\* ------------------------------------------------------------------ C11
\* C11 as stated: once a QueryManager has been initialised, no later step
\* changes the field mapping it reads, the construction of another
\* QueryManager included.
C11_MappingNeverChanges ==
    [][(managers >= 1 /\ pc = "idle") => fields' = fields]_vars

\* ------------------------------------------------------------------ C12
\* C12: in an error-free run with page size P the requests carry the start
\* offsets 0, P, 2P, ... in order, every returned page but the last is
\* non-empty and the last is empty (k non-empty pages, k + 1 requests), and
\* the result is the concatenation of the returned pages in request order.
C12_PagedRequests ==
    (pc = "fi_done" /\ ~failed) =>
        /\ Len(requests) = Len(pages)
        /\ \A n \in 1..Len(requests) :
              /\ requests[n].startAt = (n - 1) * max_results
              /\ requests[n].maxResults = max_results
        /\ Len(pages) >= 1
        /\ \A n \in 1..Len(pages) : (pages[n] = <<>>) <=> (n = Len(pages))
        /\ result = Concat(pages)

C12_Witness ==
    /\ pc = "fi_done" /\ ~failed
    /\ Len(requests) = 3
    /\ Len(pages[1]) > Len(pages[2])
    /\ Len(result) = Len(pages[1]) + Len(pages[2])

\* ------------------------------------------------------------------ C16
\* The resolved flag the two-pass structure gives history record h: decided
\* by the record's last resolution delta when it has one, else the flag of
\* the record before; FALSE before the first record.
RECURSIVE RecordFlag(_, _)
RecordFlag(iss, h) ==
    IF h = 0 THEN FALSE
    ELSE IF \E i \in 1..Len(iss.histories[h].items) :
                iss.histories[h].items[i].field = "resolution"
         THEN ~ClearsResolution(iss, h)
         ELSE RecordFlag(iss, h - 1)

\* C16: every snapshot emitted for a history record carries the flag fixed
\* for that record before its deltas are walked, wherever the resolution
\* delta sits among the record's deltas.
C16_FlagFixedPerRecord ==
    InChanges =>
        \A n \in 1..Len(out) :
            out[n].is_resolved = RecordFlag(issue, RecordOf(out[n]))

C16_Witness ==
    /\ pc = "ic_done"
    /\ Len(out) = 4
    /\ out[2].change = "status" /\ out[2].is_resolved
    /\ out[3].change = "resolution" /\ out[3].resolution = NONE
    /\ out[4].change = "resolution" /\ out[4].is_resolved
    /\ RecordOf(out[2]) = RecordOf(out[4])

\* ------------------------------------------------------------------ C17
\* C17: after a search request of find_issues has failed, that call sends no
\* further search request.
C17_NoRequestAfterFailure ==
    [][failed => requests' = requests]_vars

C17_Witness ==
    /\ pc = "fi_done" /\ failed
    /\ Len(requests) = 3
    /\ Len(pages) = 2

\* ------------------------------------------------------------------ C19
\* C19 as stated: in every snapshot of iter_changes, is_resolved = TRUE
\* implies a non-null resolution.
C19_ResolvedHasResolution ==
    InChanges =>
        \A n \in 1..Len(out) : out[n].is_resolved => out[n].resolution # NONE

\* ------------------------------------------------------------------ C20
\* C20 as stated: an error-free run against a result set of N issues returns
\* each of the N issues exactly once, in order, for every N and page size,
\* also when the service returns fewer issues than asked on a page that is
\* not the last.
C20_EveryIssueOnce ==
    (pc = "fi_done" /\ ~failed) => result = ResultSet(total)

\* ------------------------------------------------------------------ C15
\* Position p comes before position q in walk order.
Before(p, q) == p[1] < q[1] \/ (p[1] = q[1] /\ p[2] < q[2])

\* The new value of the most recent resolution delta before position pos in
\* walk order, null when there is none.
ResolutionBefore(iss, pos) ==
    LET Earlier(p) == Before(p, pos)
        seen == SelectSeq(Positions(iss, {"resolution"}), Earlier)
    IN  IF seen = <<>> THEN NONE ELSE DeltaAt(iss, seen[Len(seen)]).toString

IsStatusSnapshot(snap) == snap.change = "status"

\* C15: with include_resolution_changes = FALSE the replay is the creation
\* snapshot followed by exactly one snapshot per status delta; each carries
\* the new value of the most recent resolution delta before it, and the
\* status and resolved flag it has in the run with the flag enabled.
C15_SilentResolutionStillApplied ==
    (pc = "ic_done" /\ issue.hasChangelog /\ ~include_resolution_changes) =>
        LET pos == Positions(issue, {"status"})
            enabled == SelectSeq(ListIterChanges(issue, TRUE), IsStatusSnapshot)
        IN  /\ Len(out) = 1 + Len(pos)
            /\ Len(enabled) = Len(pos)
            /\ out[1].change = NONE
            /\ \A n \in 1..Len(pos) :
                  /\ out[n + 1].change = "status"
                  /\ out[n + 1].resolution = ResolutionBefore(issue, pos[n])
                  /\ out[n + 1].status = enabled[n].status
                  /\ out[n + 1].is_resolved = enabled[n].is_resolved

C15_Witness ==
    /\ pc = "ic_done" /\ issue.hasChangelog /\ ~include_resolution_changes
    /\ Len(Positions(issue, {"resolution"})) = 2
    /\ Len(out) = 2
    /\ out[2].change = "status"
    /\ out[2].resolution = "Fixed"
    /\ ~out[2].is_resolved

\* ------------------------------------------------------------------ C18
\* The changelog after deleting every delta whose field is not in F and
\* every history record left empty.
FilterIssue(iss, F) ==
    LET Keep(it) == it.field \in F
        NonEmpty(h) == h.items # <<>>
        kept == [h \in 1..Len(iss.histories) |->
                    [created |-> iss.histories[h].created,
                     items |-> SelectSeq(iss.histories[h].items, Keep)]]
    IN  [iss EXCEPT !.histories = SelectSeq(kept, NonEmpty)]

\* C18: each replay of an issue equals the replay of the same issue with
\* the deltas of unrelated fields (and the records they leave empty) deleted
\* from its changelog, so two changelogs that agree after the deletion give
\* identical sequences.
C18_UnrelatedDeltasIgnored ==
    /\ (pc = "ic_done" /\ issue.hasChangelog) =>
          out = ListIterChanges(FilterIssue(issue, {"status", "resolution"}),
                                include_resolution_changes)
    /\ (pc = "is_done" /\ issue.hasChangelog) =>
          out = ListIterSizeChanges(FilterIssue(issue, {"Story Points"}),
                                    fields)

C18_Witness ==
    /\ pc = "ic_done" /\ issue.hasChangelog
    /\ Len(issue.histories) = 2
    /\ Len(FilterIssue(issue, {"status", "resolution"}).histories) = 1
    /\ issue.histories[1].items # <<>>
    /\ issue.histories[1].items[1].field = "Story Points"
    /\ Len(out) = 3

\* ------------------------------------------------------------------ C13
\* The first entry of the allow-list, in allow-list order, that occurs among
\* the names; null when none does.
FirstAllowed(allowed, names) ==
    IF \A k \in 1..Len(allowed) : ~Contains(names, allowed[k]) THEN NoneValue
    ELSE LET first == CHOOSE k \in 1..Len(allowed) :
                          /\ Contains(names, allowed[k])
                          /\ \A j \in 1..(k - 1) : ~Contains(names, allowed[j])
         IN  Typed("str", allowed[first])

\* C13 as stated: a collection-valued field gives null when empty, the names
\* joined with "|" when the logical name has no allow-list, and otherwise
\* the first allow-list entry that occurs among the names, null if none.
C13_CollectionValue ==
    (pc = "rv_done" /\ field_value.kind = "list") =>
        /\ raised = NoException
        /\ value =
              IF field_value.elems = <<>> THEN NoneValue
              ELSE IF logical_name \notin DOMAIN known_values
              THEN Typed("str", Join(NamesOf(field_value.elems)))
              ELSE FirstAllowed(known_values[logical_name],
                                NamesOf(field_value.elems))

\* ------------------------------------------------------------------ C14
\* C14 as stated: resolve_field_value raises no exception, whatever the
\* shape of the raw value.
C14_NeverRaises ==
    pc = "rv_done" => raised = NoException

====
